---- MODULE Spec2Model ----
(***************************************************************************)
(* hubfly-reverse-proxy: the site provisioning worker (provisionSite), the *)
(* nginx manager's render / validate / apply pipeline, the record store    *)
(* and the per-port stream reconciliation, as state machines.              *)
(***************************************************************************)
EXTENDS Integers, Sequences, FiniteSets, TLC

\* ------------------------------------------------------------------ bounds
\* number of POST /v1/sites requests (one provisioning goroutine each)
MaxRuns == 2

Runs == 1..MaxRuns

\* number of DELETE /v1/sites/{id} requests
MaxDeletes == 1

Dels == 1..MaxDeletes

\* number of /v1/streams requests (one reconcileStreams goroutine each)
MaxStreamReqs == 2

\* the request slots StreamSpec uses
StreamRecs == 1..MaxStreamReqs

\* number of /v1/streams requests when they all go to one port
MaxPortReqs == 3

\* every request slot there is
Recs == 1..MaxPortReqs

\* number of listen ports the requests choose from
PortCount == 2

\* ------------------------------------------------------------ input values
SiteIDs == {"a.test", "b.test"}

\* files present in TemplatesDir
TemplateFiles == {"caching"}

\* extra_config texts: "" (none) and one the engine's config test rejects
BadExtra == "proxy_pass {"

\* error texts Certbot.Issue can return
IssueErrors == {"certbot not found", "certbot failed"}

\* request bodies of POST /v1/sites (status, error_message and
\* cert_issue_status are left out of the request)
SiteBodies ==
  [id : SiteIDs, ssl : BOOLEAN, force_ssl : BOOLEAN,
   upstreams : {<<"10.0.0.1:80">>}, templates : {<< >>}, extra : {""}]

\* requests for one site whose extra_config may be text the engine rejects
ExtraBodies ==
  [id : {"a.test"}, ssl : BOOLEAN, force_ssl : {FALSE},
   upstreams : {<<"10.0.0.1:80">>}, templates : {<< >>},
   extra : {"", BadExtra}]

\* requests for one site that name templates, present or not
TemplateBodies ==
  [id : {"a.test"}, ssl : BOOLEAN, force_ssl : {FALSE},
   upstreams : {<<"10.0.0.1:80">>},
   templates : {<<"caching">>, <<"missing">>, <<"caching", "missing">>},
   extra : {""}]

\* requests for one site, to be deleted later
DeleteBodies ==
  [id : {"a.test"}, ssl : BOOLEAN, force_ssl : {FALSE},
   upstreams : {<<"10.0.0.1:80">>}, templates : {<< >>}, extra : {""}]

\* site records handed to GenerateConfig: the id need not be the domain,
\* proxy_set_headers is listed in key order (the template ranges over the
\* map in key order)
RenderInputs ==
  [id : SiteIDs, domain : {"a.test", "www.a.test"},
   ssl : BOOLEAN, force_ssl : BOOLEAN,
   upstreams : {<< >>, <<"10.0.0.1:80">>, <<"10.0.0.1:80", "10.0.0.2:80">>},
   templates : {<< >>, <<"caching">>, <<"missing">>},
   extra : {"", "client_max_body_size 10m;"},
   headers : {<< >>, << <<"X-Real-IP", "$remote_addr">> >>}]

\* error texts Certbot.Revoke can return
RevokeErrors == {"certbot not found", "certbot revoke failed"}

\* first port of the auto-assignment range
PortMin == 30000

\* last port of the auto-assignment range
PortMax == 30100

Ports == PortMin..(PortMin + PortCount - 1)

\* ids the requests name, and the ids handleStreams generates
NamedStreamIDs == {<<"pg">>, <<"tls">>}
GeneratedID(port) == <<"stream-", port>>
NoID == << >>
StreamIDs == NamedStreamIDs \cup {GeneratedID(p) : p \in Ports}

\* request bodies of POST /v1/streams
StreamBodies ==
  [id : NamedStreamIDs, listen_port : Ports,
   upstream : {"10.0.0.2:5432", "10.0.0.3:5432"},
   protocol : {"", "udp"}, domain : {"", "db.test"}]

\* two tcp requests that name the first port: pg without a domain, tls
\* with one
PortBodies ==
  {[id |-> <<"pg">>, listen_port |-> PortMin, upstream |-> "10.0.0.2:5432",
    protocol |-> "tcp", domain |-> ""],
   [id |-> <<"tls">>, listen_port |-> PortMin, upstream |-> "10.0.0.3:5432",
    protocol |-> "tcp", domain |-> "db.test"]}

\* requests that name a listen_port and leave the id out
AnonBodies ==
  [id : {NoID}, listen_port : Ports,
   upstream : {"10.0.0.2:5432", "10.0.0.3:5432"},
   protocol : {""}, domain : {"", "db.test"}]

\* requests that leave listen_port out (0), with or without an id
AutoBodies ==
  [id : {NoID, <<"pg">>}, listen_port : {0}, upstream : {"10.0.0.2:5432"},
   protocol : {""}, domain : {""}]

\* ---------------------------------------------------------------- state
VARIABLES
  sites,      \* JSONStore.sites: id -> << >> (no entry) or <<record>>
  sitesDir,   \* live SitesDir: id -> << >> or <<config>>   (<id>.conf)
  stagingDir, \* StagingDir:    id -> << >> or <<config>>   (<id>.conf)
  loaded,     \* what the engine runs since its last successful reload
  run,        \* the provisionSite goroutines
  del,        \* the DELETE /v1/sites/{id} handlers
  streams,    \* JSONStore.streams: id -> << >> or <<record>>
  streamsDir, \* live StreamsDir: port -> << >> or <<config>> (port_<n>.conf)
  loadedStreams, \* the stream configs the engine runs
  built,      \* port -> the portStreams the live file was rendered from
  rec,        \* the reconcileStreams goroutines
  req,        \* POST /v1/streams handlers that pick the port themselves
  rendered,   \* one call of GenerateConfig: its argument and what it returned
  storeCall,  \* the last direct call of a JSONStore method and its error
  logCall     \* one call of GetAccessLogs: the file, the options, the result

siteVars == <<sites, sitesDir, stagingDir, run, del>>
streamVars == <<streams, streamsDir, built, rec, req>>
vars == <<sites, sitesDir, stagingDir, loaded, run, del,
          streams, streamsDir, loadedStreams, built, rec, req, rendered,
          storeCall, logCall>>

NoFile == << >>

\* no JSONStore method called directly yet
NoStoreCall == [op |-> "none", arg |-> << >>, err |-> "nil"]

\* no call of GetAccessLogs under study
NoLogCall == [file |-> << >>, opts |-> << >>, out |-> << >>]

\* no call of GenerateConfig under study
NoCall == [site |-> << >>, out |-> << >>]

\* a goroutine that has not been launched yet
IdleRun ==
  [pc |-> "idle", pass |-> 1, site |-> << >>, originalSSL |-> FALSE,
   staging |-> "", status |-> "", msg |-> << >>, cont |-> "",
   got |-> << >>, hist |-> << >>, exclusive |-> TRUE, resp |-> << >>,
   saveErr |-> "nil"]

\* a reconcileStreams goroutine that has not been launched yet
IdleRec ==
  [pc |-> "idle", port |-> 0, portStreams |-> << >>, i |-> 0, got |-> << >>,
   err |-> "nil", deleted |-> << >>, settled |-> FALSE]

\* a DELETE /v1/sites/{id} handler that has not been entered yet
\* `before` notes the provisionSite slots in use when the DELETE arrived
IdleDel ==
  [pc |-> "idle", id |-> "", revoke |-> FALSE, site |-> << >>, hist |-> << >>,
   before |-> {}]

\* a POST /v1/streams handler that has not been entered yet
IdleReq ==
  [pc |-> "idle", body |-> << >>, port |-> 0, resp |-> << >>, taken |-> FALSE,
   saveErr |-> "nil"]

InitStore ==
  /\ sites = [i \in SiteIDs |-> << >>]
  /\ sitesDir = [i \in SiteIDs |-> NoFile]
  /\ stagingDir = [i \in SiteIDs |-> NoFile]
  /\ loaded = [i \in SiteIDs |-> NoFile]
  /\ run = [w \in Runs |-> IdleRun]
  /\ del = [d \in Dels |-> IdleDel]
  /\ streams = [i \in StreamIDs |-> << >>]
  /\ streamsDir = [p \in Ports |-> NoFile]
  /\ loadedStreams = [p \in Ports |-> NoFile]
  /\ built = [p \in Ports |-> << >>]
  /\ rec = [r \in Recs |-> IdleRec]
  /\ req = [r \in Recs |-> IdleReq]
  /\ storeCall = NoStoreCall

\* the state after NewServer / NewManager / NewJSONStore on empty directories
Init ==
  /\ InitStore
  /\ rendered = NoCall
  /\ logCall = NoLogCall

\* ------------------------------------------------------- record store
\* JSONStore.GetSite: the entry, or not found (<< >>)
GetSite(id) == sites[id]

\* a SaveSite that keeps nothing but the record saved
SaveSite_Only(site) ==
  [i \in SiteIDs |-> IF i = site.id THEN <<site>> ELSE << >>]

\* JSONStore.SaveSite: s.sites[site.ID] = *site
SaveSite(site) == [sites EXCEPT ![site.id] = <<site>>]

\* JSONStore.DeleteSite: delete(s.sites, id)
DeleteSite(id) == [sites EXCEPT ![id] = << >>]

\* ------------------------------------------------------------ rendering
\* the "location /" body of the proxying form
ProxyLocation(site) ==
  [kind |-> "proxy", return |-> << >>, upstream |-> site.upstreams[1],
   headers |-> site.headers, snippets |-> site.templates,
   extra |-> site.extra]

RedirectLocation ==
  [kind |-> "redirect", return |-> <<"301", "https://$host$request_uri">>,
   upstream |-> "", headers |-> << >>, snippets |-> << >>, extra |-> ""]

\* a template that leaves the challenge location out of a redirecting
\* HTTP listener
RenderDocument_NoChallengeOnRedirect(site) ==
  [server_name |-> site.domain,
   http |-> IF site.force_ssl THEN RedirectLocation ELSE ProxyLocation(site),
   acme_root |-> IF site.force_ssl THEN "" ELSE "/var/www/hubfly",
   https |-> IF site.ssl
             THEN <<[server_name |-> site.domain,
                     certificate |-> <<"/etc/letsencrypt/live/", site.domain,
                                       "/fullchain.pem">>,
                     certificate_key |-> <<"/etc/letsencrypt/live/",
                                           site.domain, "/privkey.pem">>,
                     location |-> ProxyLocation(site)]>>
             ELSE << >>]

\* a template that names the certificate files after the site id
RenderDocument_CertById(site) ==
  [server_name |-> site.domain,
   http |-> IF site.force_ssl THEN RedirectLocation ELSE ProxyLocation(site),
   acme_root |-> "/var/www/hubfly",
   https |-> IF site.ssl
             THEN <<[server_name |-> site.domain,
                     certificate |-> <<"/etc/letsencrypt/live/", site.id,
                                       "/fullchain.pem">>,
                     certificate_key |-> <<"/etc/letsencrypt/live/",
                                           site.id, "/privkey.pem">>,
                     location |-> ProxyLocation(site)]>>
             ELSE << >>]

\* a template whose HTTP root location proxies whenever there is an
\* upstream, whatever force_ssl is
RenderDocument_ProxyAlways(site) ==
  [server_name |-> site.domain,
   http |-> IF site.upstreams = << >>
            THEN RedirectLocation ELSE ProxyLocation(site),
   acme_root |-> "/var/www/hubfly",
   https |-> IF site.ssl
             THEN <<[server_name |-> site.domain,
                     certificate |-> <<"/etc/letsencrypt/live/", site.domain,
                                       "/fullchain.pem">>,
                     certificate_key |-> <<"/etc/letsencrypt/live/",
                                           site.domain, "/privkey.pem">>,
                     location |-> ProxyLocation(site)]>>
             ELSE << >>]

\* The document serverTmpl produces for a site: the port-80 server block
\* (its root location, the challenge location) and, if .SSL, the port-443
\* server block with the certificate paths of the domain.
RenderDocument(site) ==
  [server_name |-> site.domain,
   http |-> IF site.force_ssl THEN RedirectLocation ELSE ProxyLocation(site),
   acme_root |-> "/var/www/hubfly",
   https |-> IF site.ssl
             THEN <<[server_name |-> site.domain,
                     certificate |-> <<"/etc/letsencrypt/live/", site.domain,
                                       "/fullchain.pem">>,
                     certificate_key |-> <<"/etc/letsencrypt/live/",
                                           site.domain, "/privkey.pem">>,
                     location |-> ProxyLocation(site)]>>
             ELSE << >>]

\* the template evaluates "index .Upstreams 0" in the proxying HTTP
\* location and in the HTTPS block
NeedsUpstream(site) == (~site.force_ssl) \/ site.ssl

\* a GenerateConfig that leaves out the templates it cannot read
GenerateConfig_SkipUnknown(site) ==
  [err |-> "nil",
   doc |-> <<RenderDocument(
               [site EXCEPT !.templates =
                  SelectSeq(@, LAMBDA t : t \in TemplateFiles)])>>]

\* GenerateConfig up to the staging write: the error of the first template
\* file that cannot be read, the error of executing serverTmpl, or the
\* rendered document.
GenerateConfig(site) ==
  IF \E k \in 1..Len(site.templates) : site.templates[k] \notin TemplateFiles
  THEN [err |-> "failed to load template", doc |-> << >>]
  ELSE IF NeedsUpstream(site) /\ site.upstreams = << >>
  THEN [err |-> "index out of range", doc |-> << >>]
  ELSE [err |-> "nil", doc |-> <<RenderDocument(site)>>]

\* one call of Manager.GenerateConfig on the record drawn at the start:
\* the error of the rendering, or the staging file <id>.conf written (or
\* the error of that write)
RenderApply ==
  /\ rendered.site # << >>
  /\ rendered.out = << >>
  /\ LET site == rendered.site[1]
         g == GenerateConfig(site)
     IN IF g.err # "nil"
        THEN /\ rendered' = [rendered EXCEPT !.out = <<g>>]
             /\ UNCHANGED stagingDir
        ELSE \E io \in {"nil", "write failed"} :
               IF io = "nil"
               THEN /\ stagingDir' = [stagingDir EXCEPT ![site.id] = g.doc]
                    /\ rendered' = [rendered EXCEPT !.out = <<g>>]
               ELSE /\ rendered' = [rendered EXCEPT !.out =
                                      <<[err |-> io, doc |-> << >>]>>]
                    /\ UNCHANGED stagingDir
  /\ UNCHANGED <<logCall, storeCall, sites, sitesDir, loaded, run, del, loadedStreams, streamVars>>

\* ---- firewall fragments (Template Compiler of the specification; the
\* renderer that emits them is exercised by firewall_test.go)

\* FirewallConfig values: ip_rules in evaluation order, block_rules and
\* rate_limit optional
IPRuleLists ==
  {<< >>,
   <<[action |-> "allow", value |-> "192.168.1.100"],
     [action |-> "deny", value |-> "192.168.1.0/24"],
     [action |-> "allow", value |-> "all"]>>,
   <<[action |-> "deny", value |-> "192.168.1.0/24"],
     [action |-> "allow", value |-> "192.168.1.100"]>>,
   <<[action |-> "deny", value |-> "all"],
     [action |-> "deny", value |-> "all"]>>}

\* path_methods is listed in key order (the template ranges over the map
\* in key order)
BlockRuleSets ==
  {<< >>,
   <<[paths |-> <<"/admin", "/private">>, user_agents |-> <<"curl", "wget">>,
      methods |-> <<"POST", "DELETE">>, path_methods |-> << >>]>>,
   <<[paths |-> <<"/admin">>, user_agents |-> << >>,
      methods |-> <<"POST">>, path_methods |-> << >>]>>,
   <<[paths |-> << >>, user_agents |-> << >>, methods |-> << >>,
      path_methods |-> <<[path |-> "/admin",
                          methods |-> <<"POST", "DELETE">>]>>]>>,
   <<[paths |-> <<"/private">>, user_agents |-> << >>,
      methods |-> <<"DELETE">>,
      path_methods |-> <<[path |-> "/admin", methods |-> <<"POST">>],
                         [path |-> "/api", methods |-> <<"PUT", "DELETE">>]>>
     ]>>}

RateLimits ==
  {<< >>,
   <<[enabled |-> FALSE, rate |-> 10, unit |-> "r/s", burst |-> 20]>>,
   <<[enabled |-> TRUE, rate |-> 10, unit |-> "r/s", burst |-> 20]>>,
   <<[enabled |-> TRUE, rate |-> 5, unit |-> "r/m", burst |-> 0]>>}

FirewallConfigs ==
  {<< >>} \cup
  {<<fw>> : fw \in [ip_rules : IPRuleLists, block_rules : BlockRuleSets,
                    rate_limit : RateLimits]}

\* site records with a firewall, as firewall_test.go builds them: one
\* upstream, no TLS, no templates
FirewallInputs ==
  [id : SiteIDs, domain : {"a.test", "www.a.test"},
   ssl : {FALSE}, force_ssl : {FALSE}, upstreams : {<<"10.0.0.1:80">>},
   templates : {<< >>}, extra : {""}, headers : {<< >>},
   firewall : FirewallConfigs]

\* IP rules listed with every deny before every allow
CompileIPRules_DenyFirst(rules) ==
  LET line(r) == <<r.action, r.value>>
      pick(a) == SelectSeq(rules, LAMBDA r : r.action = a)
      all == pick("deny") \o pick("allow")
  IN [k \in 1..Len(all) |-> line(all[k])]

\* "allow <value>;" / "deny <value>;", one directive per rule, in the order
\* of the list
CompileIPRules(rules) ==
  [k \in 1..Len(rules) |-> <<rules[k].action, rules[k].value>>]

\* "location ~ <path> { return 403; }", one per blocked path
CompileBlockedPaths(paths) ==
  [k \in 1..Len(paths) |-> <<"location", "~", paths[k], "return", "403">>]

\* 'if ($http_user_agent ~* "(<p1>|<p2>|...)") { return 403; }', one
\* conditional for the whole list (none for an empty list)
CompileUserAgents(patterns) ==
  IF patterns = << >> THEN << >>
  ELSE << <<"if", "$http_user_agent", "~*", patterns, "return", "403">> >>

\* blocked methods answered like blocked paths
CompileMethods_Forbidden(methods) ==
  IF methods = << >> THEN << >>
  ELSE << <<"if", "$request_method", "~*", methods, "return", "403">> >>

\* 'if ($request_method ~* "(<m1>|<m2>|...)") { return 405; }', one
\* conditional for the whole list (none for an empty list)
CompileMethods(methods) ==
  IF methods = << >> THEN << >>
  ELSE << <<"if", "$request_method", "~*", methods, "return", "405">> >>

\* path-scoped blocks that answer the listed methods and forward nothing
CompilePathMethods_NoForward(site, entries) ==
  [k \in 1..Len(entries) |->
     [location |-> <<"~", entries[k].path>>,
      body |-> << <<"if", "$request_method", "~*", entries[k].methods,
                    "return", "405">> >>]]

\* 'location ~ <path> { if ($request_method ~* "(<m1>|...)") { return 405; }
\* ... proxy_pass ...; }', one block per entry of path_methods
CompilePathMethods(site, entries) ==
  [k \in 1..Len(entries) |->
     [location |-> <<"~", entries[k].path>>,
      body |-> << <<"if", "$request_method", "~*", entries[k].methods,
                    "return", "405">>,
                  <<"proxy_pass", site.upstreams[1]>> >>]]

\* the path-scoped blocks of a site
CompilePathBlocks(site) ==
  IF site.firewall = << >> \/ site.firewall[1].block_rules = << >>
  THEN << >>
  ELSE CompilePathMethods(site, site.firewall[1].block_rules[1].path_methods)

\* one zone name for every site
ZoneName_Shared(id) == <<"zone_", "site">>

\* the zone name derived from the site id: "zone_<id>"
ZoneName(id) == <<"zone_", id>>

\* rate limiting is asked for
RateLimited(fw) == fw.rate_limit # << >> /\ fw.rate_limit[1].enabled

\* "limit_req_zone $binary_remote_addr zone=<zone>:10m rate=<rate><unit>;"
CompileRateLimitZone(id, fw) ==
  IF RateLimited(fw)
  THEN << <<"limit_req_zone", "$binary_remote_addr", ZoneName(id), "10m",
            fw.rate_limit[1].rate, fw.rate_limit[1].unit>> >>
  ELSE << >>

\* "limit_req zone=<zone> burst=<burst> nodelay;"
CompileRateLimit(id, fw) ==
  IF RateLimited(fw)
  THEN << <<"limit_req", ZoneName(id), fw.rate_limit[1].burst, "nodelay">> >>
  ELSE << >>

\* the directives compiled from a site's firewall for its proxying
\* location
CompileFirewall(site) ==
  IF site.firewall = << >> THEN << >>
  ELSE LET fw == site.firewall[1]
           block == IF fw.block_rules = << >>
                    THEN [paths |-> << >>, user_agents |-> << >>,
                          methods |-> << >>]
                    ELSE fw.block_rules[1]
       IN CompileIPRules(fw.ip_rules)
            \o CompileBlockedPaths(block.paths)
            \o CompileUserAgents(block.user_agents)
            \o CompileMethods(block.methods)
            \o CompileRateLimit(site.id, fw)

\* the zone declarations that precede the server blocks
CompileZones(site) ==
  IF site.firewall = << >> THEN << >>
  ELSE CompileRateLimitZone(site.id, site.firewall[1])

\* GenerateConfig on a site with a firewall: the document of serverTmpl
\* with the zone declarations and the compiled directives, written to the
\* staging file <id>.conf
FirewallApply ==
  /\ rendered.site # << >>
  /\ rendered.out = << >>
  /\ LET site == rendered.site[1]
         doc == RenderDocument(site)
                  @@ [zones |-> CompileZones(site),
                      firewall |-> CompileFirewall(site),
                      path_blocks |-> CompilePathBlocks(site)]
     IN /\ rendered' = [rendered EXCEPT !.out =
                          <<[err |-> "nil", doc |-> <<doc>>]>>]
        /\ stagingDir' = [stagingDir EXCEPT ![site.id] = <<doc>>]
  /\ UNCHANGED <<logCall, storeCall, sites, sitesDir, loaded, run, del, loadedStreams, streamVars>>

FirewallInit ==
  /\ InitStore
  /\ logCall = NoLogCall
  /\ \E site \in FirewallInputs :
       rendered = [site |-> <<site>>, out |-> << >>]

FirewallNext == FirewallApply

\* GenerateConfig applied to one site record with a firewall
FirewallSpec == FirewallInit /\ [][FirewallNext]_vars

RenderInit ==
  /\ InitStore
  /\ logCall = NoLogCall
  /\ \E site \in RenderInputs : rendered = [site |-> <<site>>, out |-> << >>]

RenderNext == RenderApply

\* GenerateConfig applied to one site record
RenderSpec == RenderInit /\ [][RenderNext]_vars

\* Manager.Validate: returns nil whatever the staged file holds
Validate(stagingFile) == "nil"

\* whether nginx's configuration test accepts a document (the raw
\* extra_config is copied into it verbatim)
EngineAccepts(doc) ==
  /\ doc.http.extra # BadExtra
  /\ \A k \in 1..Len(doc.https) : doc.https[k].location.extra # BadExtra

\* ------------------------------------------------------ provisioning runs
Event(op, arg) == [op |-> op, arg |-> arg]

\* updateStatus(id, status, msg) is entered: GetSite comes first
CallUpdateStatus(r, status, msg, cont) ==
  [r EXCEPT !.pc = "updateStatus", !.status = status, !.msg = msg,
            !.cont = cont]

Log(r, op, arg) == [r EXCEPT !.hist = Append(@, Event(op, arg))]

SameSite(v, id) == run[v].pc # "idle" /\ run[v].site.id = id

\* error texts JSONStore.save / saveStreams can return (os.WriteFile)
SaveErrors == {"save failed"}

\* the record handleSites stores: the decoded body (fields left out of the
\* JSON are empty), Status = "provisioning"
NewSite(body) ==
  [id |-> body.id, domain |-> body.id, ssl |-> body.ssl,
   force_ssl |-> body.force_ssl, upstreams |-> body.upstreams,
   templates |-> body.templates, extra |-> body.extra,
   headers |-> IF "headers" \in DOMAIN body THEN body.headers ELSE << >>,
   status |-> "provisioning", msg |-> << >>, cert |-> ""]

\* a handler that launches the worker whatever SaveSite returned
AfterSaveSite_Always(site, err, alone) ==
  [IdleRun EXCEPT !.pc = "GenerateConfig", !.site = site,
                  !.exclusive = alone, !.resp = <<"201", site>>]

\* handleSites after SaveSite: 500 and no worker on an error; otherwise
\* "go s.provisionSite(&siteCopy)" and 201 with the record
AfterSaveSite(site, err, alone) ==
  IF err = "nil"
  THEN [IdleRun EXCEPT !.pc = "GenerateConfig", !.site = site,
                       !.exclusive = alone, !.resp = <<"201", site>>]
  ELSE [IdleRun EXCEPT !.pc = "rejected", !.site = site,
                       !.exclusive = alone, !.resp = <<"500", err>>]

\* POST /v1/sites: decode, default the id, status = provisioning, SaveSite
\* (the map entry is set before the file is written, so it is set even
\* when the write fails), launch provisionSite on a copy.
handleSites(w, body) ==
  /\ run[w].pc = "idle"
  /\ \A v \in Runs : v < w => run[v].pc # "idle"
  /\ LET site == NewSite(body)
         alone == \A v \in Runs :
                    SameSite(v, body.id) => run[v].pc \in {"done", "rejected"}
     IN \E err \in {"nil"} \cup SaveErrors :
          /\ sites' = SaveSite(site)
          /\ run' = [v \in Runs |->
                       IF v = w
                       THEN [AfterSaveSite(site, err, alone)
                               EXCEPT !.saveErr = err]
                       ELSE IF SameSite(v, body.id)
                       THEN [run[v] EXCEPT !.exclusive = FALSE]
                       ELSE run[v]]
  /\ UNCHANGED <<logCall, storeCall, rendered, sitesDir, stagingDir, loaded, loadedStreams, streamVars, del>>

\* a first pass that renders the requested SSL as it came
DisableSSLForChallenge_Kept(site) == site

\* provisionSite: "if originalSSL { site.SSL = false }"
DisableSSLForChallenge(site) == [site EXCEPT !.ssl = FALSE]

\* s.Nginx.GenerateConfig(site) as provisionSite calls it: on success the
\* document is written to StagingDir/<id>.conf and the run goes on to
\* `next`; on a render or write error updateStatus(id, "error", prefix+err).
Render(w, r0, prefix, next) ==
  LET g == GenerateConfig(r0.site)
      failed(e) == CallUpdateStatus(Log(r0, "render_fail", e), "error",
                                    <<prefix, e>>, "done")
  IN IF g.err # "nil"
     THEN /\ run' = [run EXCEPT ![w] = failed(g.err)]
          /\ UNCHANGED stagingDir
     ELSE \E io \in {"nil", "write failed"} :
            IF io = "nil"
            THEN /\ stagingDir' = [stagingDir EXCEPT ![r0.site.id] = g.doc]
                 /\ run' = [run EXCEPT ![w] =
                      [Log(r0, "render", IF r0.site.ssl THEN "https" ELSE "http")
                         EXCEPT !.pc = next, !.staging = r0.site.id]]
            ELSE /\ run' = [run EXCEPT ![w] = failed(io)]
                 /\ UNCHANGED stagingDir

\* provisionSite, first pass: remember the requested SSL, force it off,
\* GenerateConfig
provisionSite_GenerateConfig(w) ==
  /\ run[w].pc = "GenerateConfig"
  /\ Render(w, [run[w] EXCEPT !.originalSSL = run[w].site.ssl,
                              !.site = DisableSSLForChallenge(run[w].site)],
            "config gen failed: ", "Validate")
  /\ UNCHANGED <<logCall, storeCall, rendered, sites, sitesDir, loaded, loadedStreams, streamVars, del>>

\* provisionSite: Validate(staging)
provisionSite_Validate(w) ==
  /\ run[w].pc = "Validate"
  /\ LET v == Validate(run[w].staging)
     IN run' = [run EXCEPT ![w] =
          IF v = "nil"
          THEN [Log(run[w], "validate", "ok") EXCEPT !.pc = "Apply"]
          ELSE CallUpdateStatus(Log(run[w], "validate_fail", v), "error",
                                <<"config invalid: ", v>>, "done")]
  /\ UNCHANGED <<logCall, storeCall, rendered, sites, sitesDir, stagingDir, loaded, loadedStreams, streamVars, del>>

\* a worker that reports a failed Apply as a validation failure
ApplyPrefix_Invalid(r) == "config invalid: "

ApplyPrefix(r) == IF r.pass = 1 THEN "apply failed: " ELSE "ssl apply failed: "

\* a swap that copies the staged file and leaves it where it was
RenameStaged_Copy(name) == stagingDir

\* the staging directory after os.Rename moved <name>.conf out of it
RenameStaged(name) == [stagingDir EXCEPT ![name] = NoFile]

\* Manager.Apply, the rename: os.Rename(stagingFile, SitesDir/<id>.conf).
\* It fails when the staged file is gone, or on an I/O error.
Apply_Rename(w) ==
  /\ run[w].pc = "Apply"
  /\ LET r == run[w]
         id == r.site.id
         failed(e) == CallUpdateStatus(Log(r, "rename_fail", e), "error",
                                       <<ApplyPrefix(r), e>>, "done")
     IN IF stagingDir[r.staging] = NoFile
        THEN /\ run' = [run EXCEPT ![w] = failed("no such file")]
             /\ UNCHANGED <<sitesDir, stagingDir>>
        ELSE \E io \in {"nil", "rename failed"} :
               IF io = "nil"
               THEN /\ sitesDir' = [sitesDir EXCEPT ![id] = stagingDir[r.staging]]
                    /\ stagingDir' = RenameStaged(r.staging)
                    /\ run' = [run EXCEPT ![w] =
                         [Log(r, "rename", IF stagingDir[r.staging][1].https = << >>
                                           THEN "http" ELSE "https")
                            EXCEPT !.pc = "Reload"]]
               ELSE /\ run' = [run EXCEPT ![w] = failed(io)]
                    /\ UNCHANGED <<sitesDir, stagingDir>>
  /\ UNCHANGED <<logCall, storeCall, rendered, sites, loaded, loadedStreams, streamVars, del>>

\* a worker that reports active as soon as the first Apply returned
AfterApply_ActiveEarly(r) ==
  CallUpdateStatus(r, "active", << >>,
                   IF r.pass = 1 /\ r.originalSSL THEN "Issue" ELSE "done")

\* a provisionSite that leaves the status alone once the config is live
AfterApply_StaysProvisioning(r) ==
  CallUpdateStatus(r, "provisioning", << >>,
                   IF r.pass = 1 /\ r.originalSSL THEN "Issue" ELSE "done")

\* what provisionSite does once Apply has returned nil
AfterApply(r) ==
  IF r.pass = 1 /\ r.originalSSL
  THEN CallUpdateStatus(r, "provisioning", <<"issuing certificate">>, "Issue")
  ELSE CallUpdateStatus(r, "active", << >>, "done")

\* Manager.Apply, "return m.Reload()": nginx -s reload makes the engine
\* run the live directory, or fails and leaves it running what it ran.
Apply_Reload(w) ==
  /\ run[w].pc = "Reload"
  /\ LET r == run[w]
     IN \E out \in {"nil", "nginx reload failed"} :
          IF out = "nil"
          THEN /\ loaded' = sitesDir
               /\ loadedStreams' = streamsDir
               /\ run' = [run EXCEPT ![w] = AfterApply(Log(r, "reload", "ok"))]
          ELSE /\ run' = [run EXCEPT ![w] =
                    CallUpdateStatus(Log(r, "reload_fail", out), "error",
                                     <<ApplyPrefix(r), out>>, "done")]
               /\ UNCHANGED <<loaded, loadedStreams>>
  /\ UNCHANGED <<logCall, storeCall, rendered, sites, sitesDir, stagingDir, streamVars, del>>

\* a worker that forgets to record the issuance
IssuedSite_NoCert(site) == [site EXCEPT !.ssl = TRUE]

\* provisionSite after Issue returned nil: site.SSL = true,
\* site.CertIssueStatus = "valid"
IssuedSite(site) == [site EXCEPT !.ssl = TRUE, !.cert = "valid"]

\* provisionSite: s.Certbot.Issue(site.Domain), then the copy is updated
provisionSite_Issue(w) ==
  /\ run[w].pc = "Issue"
  /\ LET r == run[w]
     IN \E out \in {"nil"} \cup IssueErrors :
          run' = [run EXCEPT ![w] =
            IF out = "nil"
            THEN [Log(r, "issue", r.site.domain) EXCEPT
                    !.pc = "SaveSite", !.site = IssuedSite(r.site)]
            ELSE CallUpdateStatus(Log(r, "issue_fail", out), "cert-failed",
                                  <<out>>, "done")]
  /\ UNCHANGED <<logCall, storeCall, rendered, sites, sitesDir, stagingDir, loaded, loadedStreams, streamVars, del>>

\* provisionSite: s.Store.SaveSite(site), the run's copy
provisionSite_SaveSite(w) ==
  /\ run[w].pc = "SaveSite"
  /\ sites' = SaveSite(run[w].site)
  /\ run' = [run EXCEPT ![w].pc = "GenerateConfigSSL", ![w].pass = 2]
  /\ UNCHANGED <<logCall, storeCall, rendered, sitesDir, stagingDir, loaded, loadedStreams, streamVars, del>>

\* provisionSite, second pass: GenerateConfig(site) with SSL on; Apply
\* follows it directly
provisionSite_GenerateConfigSSL(w) ==
  /\ run[w].pc = "GenerateConfigSSL"
  /\ Render(w, run[w], "ssl config gen failed: ", "Apply")
  /\ UNCHANGED <<logCall, storeCall, rendered, sites, sitesDir, loaded, loadedStreams, streamVars, del>>

\* updateStatus: site, err := s.Store.GetSite(id); return on not-found
updateStatus_GetSite(w) ==
  /\ run[w].pc = "updateStatus"
  /\ LET site == GetSite(run[w].site.id)
     IN run' = [run EXCEPT ![w] =
          IF site = << >>
          THEN [run[w] EXCEPT !.pc = run[w].cont]
          ELSE [run[w] EXCEPT !.pc = "updateStatusSave", !.got = site]]
  /\ UNCHANGED <<logCall, storeCall, rendered, sites, sitesDir, stagingDir, loaded, loadedStreams, streamVars, del>>

\* an updateStatus that drops the message
WithStatus_NoMsg(site, status, msg) == [site EXCEPT !.status = status]

\* updateStatus: site.Status = status; site.ErrorMessage = msg
WithStatus(site, status, msg) == [site EXCEPT !.status = status, !.msg = msg]

\* updateStatus: the record read gets the status and message, SaveSite
updateStatus_SaveSite(w) ==
  /\ run[w].pc = "updateStatusSave"
  /\ sites' = SaveSite(WithStatus(run[w].got[1], run[w].status, run[w].msg))
  /\ run' = [run EXCEPT ![w].pc = run[w].cont, ![w].got = << >>]
  /\ UNCHANGED <<logCall, storeCall, rendered, sitesDir, stagingDir, loaded, loadedStreams, streamVars, del>>

\* one step of some provisionSite goroutine
RunStep ==
  \/ \E w \in Runs : provisionSite_GenerateConfig(w)
  \/ \E w \in Runs : provisionSite_Validate(w)
  \/ \E w \in Runs : Apply_Rename(w)
  \/ \E w \in Runs : Apply_Reload(w)
  \/ \E w \in Runs : provisionSite_Issue(w)
  \/ \E w \in Runs : provisionSite_SaveSite(w)
  \/ \E w \in Runs : provisionSite_GenerateConfigSSL(w)
  \/ \E w \in Runs : updateStatus_GetSite(w)
  \/ \E w \in Runs : updateStatus_SaveSite(w)

Next ==
  \/ \E w \in Runs, body \in SiteBodies : handleSites(w, body)
  \/ RunStep

Spec == Init /\ [][Next]_vars

\* the steps of the provisionSite goroutine in slot w
WorkerStep(w) ==
  \/ provisionSite_GenerateConfig(w)
  \/ provisionSite_Validate(w)
  \/ Apply_Rename(w)
  \/ Apply_Reload(w)
  \/ provisionSite_Issue(w)
  \/ provisionSite_SaveSite(w)
  \/ provisionSite_GenerateConfigSSL(w)
  \/ updateStatus_GetSite(w)
  \/ updateStatus_SaveSite(w)

\* the same program when every goroutine that can run is scheduled and
\* every call it makes returns
FairSpec == Spec /\ \A w \in Runs : WF_vars(WorkerStep(w))

ExtraNext ==
  \/ \E w \in Runs, body \in ExtraBodies : handleSites(w, body)
  \/ RunStep

\* the same program, fed requests with raw extra_config
ExtraSpec == Init /\ [][ExtraNext]_vars

\* a handler that never revokes
ShouldRevoke_Never(revoke, site) == FALSE

\* handleSiteDetail: "if revoke && site.SSL"
ShouldRevoke(revoke, site) == revoke /\ site.ssl

\* DELETE /v1/sites/{id}?revoke_cert=: GetSite (404 when there is none),
\* then Revoke if asked for and the site has SSL, else Nginx.Delete
handleSiteDetail_GetSite(d, id, revoke) ==
  /\ del[d].pc = "idle"
  /\ GetSite(id) # << >>
  /\ del' = [del EXCEPT ![d] =
       [IdleDel EXCEPT !.pc = IF ShouldRevoke(revoke, GetSite(id)[1])
                             THEN "Revoke" ELSE "Delete",
                       !.id = id, !.revoke = revoke, !.site = GetSite(id),
                       !.before = {w \in Runs : run[w].pc # "idle"}]]
  /\ run' = [v \in Runs |->
               IF SameSite(v, id) THEN [run[v] EXCEPT !.exclusive = FALSE]
               ELSE run[v]]
  /\ UNCHANGED <<logCall, storeCall, rendered, sites, sitesDir, stagingDir, loaded, loadedStreams, streamVars>>

\* handleSiteDetail: s.Certbot.Revoke(site.Domain); an error is logged and
\* the handler goes on
handleSiteDetail_Revoke(d) ==
  /\ del[d].pc = "Revoke"
  /\ \E out \in {"nil"} \cup RevokeErrors :
       del' = [del EXCEPT ![d].pc = "Delete",
                          ![d].hist = Append(@, Event(IF out = "nil"
                                                      THEN "revoke"
                                                      ELSE "revoke_fail",
                                                      del[d].site[1].domain))]
  /\ UNCHANGED <<logCall, storeCall, rendered, sites, sitesDir, stagingDir, loaded, run, loadedStreams,
                 streamVars>>

\* handleSiteDetail: s.Nginx.Delete(id) -- os.Remove of the live file (a
\* missing file is no error), then Reload; an error of either ends the
\* request with 500
handleSiteDetail_Delete(d) ==
  /\ del[d].pc = "Delete"
  /\ \E out \in {"nil", "remove failed", "nginx reload failed"} :
       /\ IF out = "remove failed"
          THEN UNCHANGED sitesDir
          ELSE sitesDir' = [sitesDir EXCEPT ![del[d].id] = NoFile]
       /\ IF out = "nil"
          THEN /\ loaded' = sitesDir'
               /\ loadedStreams' = streamsDir
          ELSE UNCHANGED <<loaded, loadedStreams>>
       /\ del' = [del EXCEPT ![d].pc = IF out = "nil" THEN "DeleteSite"
                                       ELSE "failed",
                             ![d].hist = Append(@, Event("remove", out))]
  /\ UNCHANGED <<logCall, storeCall, rendered, sites, stagingDir, run, streamVars>>

\* handleSiteDetail: s.Store.DeleteSite(id), 200 deleted
handleSiteDetail_DeleteSite(d) ==
  /\ del[d].pc = "DeleteSite"
  /\ sites' = DeleteSite(del[d].id)
  /\ del' = [del EXCEPT ![d].pc = "done",
                        ![d].hist = Append(@, Event("delete_record", del[d].id))]
  /\ UNCHANGED <<logCall, storeCall, rendered, sitesDir, stagingDir, loaded, run, loadedStreams, streamVars>>

DeleteNext ==
  \/ \E w \in Runs, body \in DeleteBodies : handleSites(w, body)
  \/ RunStep
  \/ \E d \in Dels, id \in SiteIDs, revoke \in BOOLEAN :
       handleSiteDetail_GetSite(d, id, revoke)
  \/ \E d \in Dels : handleSiteDetail_Revoke(d)
  \/ \E d \in Dels : handleSiteDetail_Delete(d)
  \/ \E d \in Dels : handleSiteDetail_DeleteSite(d)

\* creating and deleting a site
DeleteSpec == Init /\ [][DeleteNext]_vars

TemplateNext ==
  \/ \E w \in Runs, body \in TemplateBodies : handleSites(w, body)
  \/ RunStep

\* the same program, fed requests that name templates
TemplateSpec == Init /\ [][TemplateNext]_vars

\* ------------------------------------------------------------- streams
GetStream(id) == streams[id]

\* JSONStore.SaveStream: s.streams[stream.ID] = *stream
SaveStream(stream) == [streams EXCEPT ![stream.id] = <<stream>>]

\* JSONStore.DeleteStream: delete(s.streams, id)
DeleteStream(id) == [streams EXCEPT ![id] = << >>]

\* the records ListStreams returns, as a set
StoredStreams == {streams[i][1] : i \in {j \in StreamIDs : streams[j] # << >>}}

\* the orders in which a range over the map can list a set of records
Orders(S) ==
  {f \in [1..Cardinality(S) -> S] :
     \A a, b \in 1..Cardinality(S) : f[a] = f[b] => a = b}

\* a useSNI that looks at the number of streams only
UseSNI_CountOnly(portStreams) == Len(portStreams) > 1

\* RebuildStreamConfig: "useSNI" -- more than one stream, or the single
\* stream has a domain
UseSNI(portStreams) ==
  IF Len(portStreams) > 1 THEN TRUE ELSE portStreams[1].domain # ""

\* the map block: one line per stream with a domain, in list order
MapEntries(portStreams) ==
  [k \in 1..Len(SelectSeq(portStreams, LAMBDA x : x.domain # "")) |->
     LET x == SelectSeq(portStreams, LAMBDA y : y.domain # "")[k]
     IN <<x.domain, x.upstream>>]

\* a default line taken from the last stream without a domain
DefaultEntry_Last(portStreams) ==
  LET none == SelectSeq(portStreams, LAMBDA x : x.domain = "")
  IN IF none = << >> THEN << >> ELSE <<none[Len(none)].upstream>>

\* the "default" line: the upstream of the first stream without a domain
DefaultEntry(portStreams) ==
  LET none == SelectSeq(portStreams, LAMBDA x : x.domain = "")
  IN IF none = << >> THEN << >> ELSE <<none[1].upstream>>

\* the text RebuildStreamConfig writes for a non-empty list of streams
RenderPort(port, portStreams) ==
  IF ~UseSNI(portStreams)
  THEN [kind |-> "direct", listen |-> portStreams[1].listen_port,
        proto |-> IF portStreams[1].protocol = "udp" THEN " udp" ELSE "",
        proxy_pass |-> <<portStreams[1].upstream>>,
        map |-> << >>, default |-> << >>]
  ELSE [kind |-> "sni", listen |-> port, proto |-> "",
        proxy_pass |-> <<"$stream_map_", port>>,
        map |-> MapEntries(portStreams),
        default |-> DefaultEntry(portStreams)]

RecStarted(r) == rec[r].pc # "idle"

\* "go s.reconcileStreams(port)" in slot r; `deleted` is the record the
\* DELETE request removed (none for a POST), `settled` notes whether the
\* goroutine of the request that created that record had ended by then
Launch(r, port, deleted) ==
  rec' = [rec EXCEPT ![r] =
            [IdleRec EXCEPT !.pc = "reconcileStreams", !.port = port,
                            !.deleted = deleted,
                            !.settled = \A k \in 1..Len(deleted) :
                                          rec[deleted[k].created_at].pc = "done"]]

\* slot r has taken a request
SlotUsed(r) == RecStarted(r) \/ req[r].pc # "idle"

FreeSlot(r) ==
  /\ ~SlotUsed(r)
  /\ \A q \in Recs : q < r => SlotUsed(q)

\* the record handleStreams stores: id and protocol defaulted,
\* CreatedAt = time.Now() (the request's number stands for the time),
\* Status = "provisioning"
NewStream(r, body, port) ==
  [id |-> IF body.id = NoID THEN GeneratedID(port) ELSE body.id,
   listen_port |-> port, upstream |-> body.upstream,
   protocol |-> IF body.protocol = "" THEN "tcp" ELSE body.protocol,
   domain |-> body.domain, status |-> "provisioning", msg |-> << >>,
   created_at |-> r]

\* the ports some stored stream listens on ("usedPorts")
UsedPorts == {x.listen_port : x \in StoredStreams}

\* handleStreams after SaveStream: 500 and no goroutine on an error;
\* otherwise "go s.provisionStream(&streamCopy)" and 201 with the record.
\* `taken` notes whether a stored stream already listened on the port at
\* the save.
AfterSaveStream(r, body, port, err) ==
  IF err = "nil"
  THEN /\ Launch(r, port, << >>)
       /\ req' = [req EXCEPT ![r] =
                    [pc |-> "done", body |-> <<body>>, port |-> port,
                     resp |-> <<"201", NewStream(r, body, port)>>,
                     taken |-> port \in UsedPorts, saveErr |-> err]]
  ELSE /\ UNCHANGED rec
       /\ req' = [req EXCEPT ![r] =
                    [pc |-> "failed", body |-> <<body>>, port |-> port,
                     resp |-> <<"500", err>>,
                     taken |-> port \in UsedPorts, saveErr |-> err]]

\* POST /v1/streams with a listen_port: default the id and the protocol,
\* status = provisioning, SaveStream, launch provisionStream
\* (reconcileStreams of the port).
handleStreams(r, body) ==
  /\ FreeSlot(r)
  /\ body.listen_port # 0
  /\ \E err \in {"nil"} \cup SaveErrors :
       /\ streams' = SaveStream(NewStream(r, body, body.listen_port))
       /\ AfterSaveStream(r, body, body.listen_port, err)
  /\ UNCHANGED <<logCall, storeCall, rendered, siteVars, loaded, streamsDir, loadedStreams, built>>

\* POST /v1/streams, ListenPort == 0: the ports of the range that no
\* listed stream uses
Candidates == Ports \ UsedPorts

\* POST /v1/streams without listen_port, up to the choice of the port:
\* ListStreams, collect the unused ports of the range, 500 if there is
\* none, else pick one at random.
handleStreams_PickPort(r, body) ==
  /\ FreeSlot(r)
  /\ body.listen_port = 0
  /\ IF Candidates = {}
     THEN req' = [req EXCEPT ![r] = [IdleReq EXCEPT !.pc = "failed",
                                                    !.body = <<body>>,
                                                    !.resp = <<"500">>]]
     ELSE \E port \in Candidates :
            req' = [req EXCEPT ![r] = [IdleReq EXCEPT !.pc = "picked",
                                                      !.body = <<body>>,
                                                      !.port = port]]
  /\ UNCHANGED <<logCall, storeCall, rendered, siteVars, loaded, streams, streamsDir, loadedStreams, built,
                 rec>>

\* POST /v1/streams without listen_port, the rest: defaults, SaveStream,
\* launch provisionStream, respond 201 with the record.
handleStreams_SaveStream(r) ==
  /\ req[r].pc = "picked"
  /\ \E err \in {"nil"} \cup SaveErrors :
       /\ streams' = SaveStream(NewStream(r, req[r].body[1], req[r].port))
       /\ AfterSaveStream(r, req[r].body[1], req[r].port, err)
  /\ UNCHANGED <<logCall, storeCall, rendered, siteVars, loaded, streamsDir, loadedStreams, built>>

\* DELETE /v1/streams/{id}: GetStream for the port, DeleteStream, launch
\* reconcileStreams of the port
handleStreamDetail(r, id) ==
  /\ FreeSlot(r)
  /\ GetStream(id) # << >>
  /\ streams' = DeleteStream(id)
  /\ Launch(r, GetStream(id)[1].listen_port, GetStream(id))
  /\ UNCHANGED <<logCall, storeCall, rendered, siteVars, loaded, streamsDir, loadedStreams, built, req>>

\* reconcileStreams: ListStreams, keep the streams of the port
reconcileStreams_List(r) ==
  /\ rec[r].pc = "reconcileStreams"
  /\ \E list \in Orders({x \in StoredStreams : x.listen_port = rec[r].port}) :
       rec' = [rec EXCEPT ![r].pc = "RebuildStreamConfig",
                          ![r].portStreams = list]
  /\ UNCHANGED <<logCall, storeCall, rendered, siteVars, loaded, streams, streamsDir, loadedStreams, built, req>>

\* index of the first stream from k on whose listed status is not active
\* (Len + 1 if there is none)
NextPending(list, k) ==
  IF \E m \in k..Len(list) : list[m].status # "active"
  THEN CHOOSE m \in k..Len(list) :
         /\ list[m].status # "active"
         /\ \A n \in k..(m-1) : list[n].status = "active"
  ELSE Len(list) + 1

\* the loop over portStreams in reconcileStreams, from index k
StatusLoop(r, k) ==
  LET m == NextPending(r.portStreams, k)
  IN IF m > Len(r.portStreams)
     THEN [r EXCEPT !.pc = "done", !.i = m, !.got = << >>]
     ELSE [r EXCEPT !.pc = "updateStreamStatus", !.i = m, !.got = << >>]

\* RebuildStreamConfig(port, portStreams): for an empty list
\* DeleteStreamConfig (remove port_<n>.conf, reload); otherwise write
\* port_<n>.conf, then reload.  An error ends reconcileStreams.
RebuildStreamConfig(r) ==
  /\ rec[r].pc = "RebuildStreamConfig"
  /\ LET p == rec[r].port
         list == rec[r].portStreams
         new == IF list = << >> THEN NoFile ELSE <<RenderPort(p, list)>>
         outs == {"nil", "reload failed"} \cup
                 (IF list = << >> /\ streamsDir[p] = NoFile THEN {}
                  ELSE {"file error"})
     IN \E out \in outs :
          /\ IF out = "file error"
             THEN UNCHANGED <<streamsDir, built>>
             ELSE /\ streamsDir' = [streamsDir EXCEPT ![p] = new]
                  /\ built' = [built EXCEPT ![p] = list]
          /\ IF out = "nil"
             THEN /\ loadedStreams' = streamsDir'
                  /\ loaded' = sitesDir
                  /\ rec' = [rec EXCEPT ![r] = StatusLoop(rec[r], 1)]
             ELSE /\ UNCHANGED <<loaded, loadedStreams>>
                  /\ rec' = [rec EXCEPT ![r].pc = "done", ![r].err = out]
  /\ UNCHANGED <<logCall, storeCall, rendered, siteVars, streams, req>>

\* updateStreamStatus: stream, err := s.Store.GetStream(id); return on
\* not-found
updateStreamStatus_GetStream(r) ==
  /\ rec[r].pc = "updateStreamStatus"
  /\ LET stream == GetStream(rec[r].portStreams[rec[r].i].id)
     IN rec' = [rec EXCEPT ![r] =
          IF stream = << >>
          THEN StatusLoop(rec[r], rec[r].i + 1)
          ELSE [rec[r] EXCEPT !.pc = "updateStreamStatusSave",
                              !.got = stream]]
  /\ UNCHANGED <<logCall, storeCall, rendered, siteVars, loaded, streams, streamsDir, loadedStreams, built, req>>

\* an updateStreamStatus that writes the record back as it read it
WithStreamStatus_Same(stream, status, msg) == stream

\* updateStreamStatus: stream.Status = status; stream.ErrorMessage = msg
WithStreamStatus(stream, status, msg) ==
  [stream EXCEPT !.status = status, !.msg = msg]

\* updateStreamStatus(id, "active", ""): the record read gets the status
\* and message, SaveStream
updateStreamStatus_SaveStream(r) ==
  /\ rec[r].pc = "updateStreamStatusSave"
  /\ streams' = SaveStream(WithStreamStatus(rec[r].got[1], "active", << >>))
  /\ rec' = [rec EXCEPT ![r] = StatusLoop(rec[r], rec[r].i + 1)]
  /\ UNCHANGED <<logCall, storeCall, rendered, siteVars, loaded, streamsDir, loadedStreams, built, req>>

\* one step of some reconcileStreams goroutine
RecStep ==
  \/ \E r \in Recs : reconcileStreams_List(r)
  \/ \E r \in Recs : RebuildStreamConfig(r)
  \/ \E r \in Recs : updateStreamStatus_GetStream(r)
  \/ \E r \in Recs : updateStreamStatus_SaveStream(r)

StreamNext ==
  \/ \E r \in StreamRecs, body \in StreamBodies : handleStreams(r, body)
  \/ \E r \in StreamRecs, id \in StreamIDs : handleStreamDetail(r, id)
  \/ RecStep

\* the stream side of the API on its own
StreamSpec == Init /\ [][StreamNext]_vars

PortNext ==
  \/ \E r \in Recs, body \in PortBodies : handleStreams(r, body)
  \/ \E r \in Recs, id \in NamedStreamIDs : handleStreamDetail(r, id)
  \/ RecStep

\* creates and deletes that all concern one port
PortSpec == Init /\ [][PortNext]_vars

AutoNext ==
  \/ \E r \in StreamRecs, body \in AutoBodies : handleStreams_PickPort(r, body)
  \/ \E r \in StreamRecs : handleStreams_SaveStream(r)
  \/ RecStep

\* creates that leave the choice of the port to the server
AutoSpec == Init /\ [][AutoNext]_vars

AnonNext ==
  \/ \E r \in StreamRecs, body \in AnonBodies : handleStreams(r, body)
  \/ RecStep

\* creates that name the port and leave the id to the server
AnonSpec == Init /\ [][AnonNext]_vars

\* ---- access logs
MaxLines == 3
MaxTime == 3

\* a line of <site>.access.log: the second of its $time_local, the method
\* of its request, and whether accessLogRegex and time.Parse accept it
LogLines == [time : 1..MaxTime, method : {"GET", "POST"}, ok : BOOLEAN]

\* access logs of at most MaxLines lines, appended in the order of time
LogFiles ==
  UNION {{f \in [1..n -> LogLines] :
            \A k \in 1..(n-1) : f[k].time <= f[k+1].time} : n \in 0..MaxLines}

\* LogOptions; 0 stands for the zero time and for no limit, "" for no search
LogOptionSets ==
  [limit : 0..2, since : {0, 2, 3}, until : {0, 2}, search : {"", "POST"}]

\* the callback GetAccessLogs hands to scanFileBackwards, applied to the
\* lines k, k-1, ... 1 of the file (the last line first) until it returns
\* false: search filter, parse, time filter (a line before Since ends the
\* scan), append, limit
RECURSIVE ScanBackwards(_, _, _, _)
ScanBackwards(file, k, opts, entries) ==
  IF k = 0 THEN entries
  ELSE LET line == file[k]
       IN IF opts.search # "" /\ line.method # opts.search
          THEN ScanBackwards(file, k - 1, opts, entries)
          ELSE IF ~line.ok
          THEN ScanBackwards(file, k - 1, opts, entries)
          ELSE IF opts.since # 0 /\ line.time < opts.since
          THEN entries
          ELSE IF opts.until # 0 /\ line.time > opts.until
          THEN ScanBackwards(file, k - 1, opts, entries)
          ELSE IF opts.limit > 0 /\ Len(entries) + 1 >= opts.limit
          THEN Append(entries, line)
          ELSE ScanBackwards(file, k - 1, opts, Append(entries, line))

\* Manager.GetAccessLogs: the entries in the order the scan appended them
GetAccessLogs(file, opts) == ScanBackwards(file, Len(file), opts, << >>)

\* one call of GetAccessLogs on the file and options drawn at the start
GetAccessLogs_Apply ==
  /\ logCall.file # << >>
  /\ logCall.out = << >>
  /\ logCall' = [logCall EXCEPT !.out =
                   <<GetAccessLogs(logCall.file[1], logCall.opts[1])>>]
  /\ UNCHANGED <<rendered, storeCall, siteVars, loaded, loadedStreams,
                 streamVars>>

LogInit ==
  /\ InitStore
  /\ rendered = NoCall
  /\ \E file \in LogFiles, opts \in LogOptionSets :
       logCall = [file |-> <<file>>, opts |-> <<opts>>, out |-> << >>]

LogNext == GetAccessLogs_Apply

\* GetAccessLogs applied to one access log
LogSpec == LogInit /\ [][LogNext]_vars

\* ---- the record store on its own
\* the lists ListSites / ListStreams can return: the map's records in any
\* order
StoredSites == {sites[i][1] : i \in {j \in SiteIDs : sites[j] # << >>}}
ListSites == Orders(StoredSites)
ListStreams == Orders(StoredStreams)

\* records handed to the store
StoreSites == {NewSite(body) : body \in DeleteBodies \cup
                 [id : {"b.test"}, ssl : {FALSE}, force_ssl : {FALSE},
                  upstreams : {<<"10.0.0.1:80">>, <<"10.0.0.2:80">>},
                  templates : {<< >>}, extra : {""}]}
StoreStreams == {NewStream(r, body, body.listen_port) :
                   r \in StreamRecs, body \in PortBodies}

\* JSONStore.SaveSite called by itself: the map entry is set, then save()
\* writes the file or returns the error of os.WriteFile
Store_SaveSite(site) ==
  \E err \in {"nil"} \cup SaveErrors :
    /\ sites' = SaveSite(site)
    /\ storeCall' = [op |-> "SaveSite", arg |-> <<site>>, err |-> err]
    /\ UNCHANGED <<logCall, rendered, sitesDir, stagingDir, loaded, run, del,
                   loadedStreams, streamVars>>

\* JSONStore.DeleteSite called by itself
Store_DeleteSite(id) ==
  \E err \in {"nil"} \cup SaveErrors :
    /\ sites' = DeleteSite(id)
    /\ storeCall' = [op |-> "DeleteSite", arg |-> <<id>>, err |-> err]
    /\ UNCHANGED <<logCall, rendered, sitesDir, stagingDir, loaded, run, del,
                   loadedStreams, streamVars>>

\* JSONStore.SaveStream called by itself
Store_SaveStream(stream) ==
  \E err \in {"nil"} \cup SaveErrors :
    /\ streams' = SaveStream(stream)
    /\ storeCall' = [op |-> "SaveStream", arg |-> <<stream>>, err |-> err]
    /\ UNCHANGED <<logCall, rendered, siteVars, loaded, loadedStreams, streamsDir,
                   built, rec, req>>

\* JSONStore.DeleteStream called by itself
Store_DeleteStream(id) ==
  \E err \in {"nil"} \cup SaveErrors :
    /\ streams' = DeleteStream(id)
    /\ storeCall' = [op |-> "DeleteStream", arg |-> <<id>>, err |-> err]
    /\ UNCHANGED <<logCall, rendered, siteVars, loaded, loadedStreams, streamsDir,
                   built, rec, req>>

StoreNext ==
  \/ \E site \in StoreSites : Store_SaveSite(site)
  \/ \E id \in SiteIDs : Store_DeleteSite(id)
  \/ \E stream \in StoreStreams : Store_SaveStream(stream)
  \/ \E id \in NamedStreamIDs : Store_DeleteStream(id)

\* the methods of JSONStore, called in any order
StoreSpec == Init /\ [][StoreNext]_vars

CreateNext ==
  \/ \E w \in Runs, body \in DeleteBodies : handleSites(w, body)
  \/ RunStep
  \/ \E body \in PortBodies : handleStreams(1, body)
  \/ RecStep

\* creates of sites and of streams side by side, saves that can fail
CreateSpec == Init /\ [][CreateNext]_vars

\* ----------------------------------------------------------- properties
Hist(w) == run[w].hist
Ops(w) == {Hist(w)[k].op : k \in 1..Len(Hist(w))}
Started(w) == run[w].pc # "idle"
Done(w) == run[w].pc = "done"
FailOps == {"render_fail", "validate_fail", "rename_fail", "reload_fail",
            "issue_fail"}
NoFail(w) == Ops(w) \cap FailOps = {}
\* the ssl flag of the request that launched run w
RequestedSSL(w) ==
  IF run[w].pc = "GenerateConfig" THEN run[w].site.ssl ELSE run[w].originalSSL
\* run w has had its site to itself since its request was accepted
Exclusive(w) == Started(w) /\ run[w].exclusive
Stored(w) == sites[run[w].site.id]
Live(w) == sitesDir[run[w].site.id]

\* C1: every rename of a staged site config into the live directory is
\* preceded, in the same provisioning run, by a successful Validate of the
\* file that run staged last (no render in between) -- the first apply and
\* the TLS-enabled second apply alike.
C1_ApplyOnlyValidated ==
  \A w \in Runs : \A k \in 1..Len(Hist(w)) :
    Hist(w)[k].op = "rename" =>
      \E j \in 1..(k-1) :
        /\ Hist(w)[j].op = "validate"
        /\ \A m \in (j+1)..(k-1) : Hist(w)[m].op # "render"

\* C2: a staged site config that fails the engine's configuration test is
\* never moved into the live sites directory (provisioning stops at the
\* validation step).
C2_RejectedConfigNeverLive ==
  \A i \in SiteIDs : sitesDir[i] # NoFile => EngineAccepts(sitesDir[i][1])

\* C3: Issue is invoked by a run only after that run rendered with ssl off
\* and its Apply of the staged file (rename, then reload) succeeded; a run
\* whose first render, validate or apply failed never invokes Issue.  A run
\* that has its site to itself applied an HTTP-only document.
C3_IssueAfterHttpApply ==
  \A w \in Runs : \A k \in 1..Len(Hist(w)) :
    Hist(w)[k].op \in {"issue", "issue_fail"} =>
      /\ \E i \in 1..(k-1), j \in 1..(k-1), l \in 1..(k-1) :
           /\ i < j /\ j < l
           /\ Hist(w)[i] = Event("render", "http")
           /\ Hist(w)[j].op = "rename"
           /\ Hist(w)[l].op = "reload"
           /\ run[w].exclusive => Hist(w)[j].arg = "http"
      /\ \A m \in 1..(k-1) : Hist(w)[m].op \notin FailOps

C3_Witness ==
  \E w \in Runs : Exclusive(w) /\ "issue" \in Ops(w)

\* C4: a stored site with ssl = true and status = active has
\* cert_issue_status = valid.
C4_ActiveSSLHasValidCert ==
  \A i \in SiteIDs : \A k \in 1..Len(sites[i]) :
    (sites[i][k].ssl /\ sites[i][k].status = "active")
      => sites[i][k].cert = "valid"

\* C5: a run renders with ssl enabled only after Issue returned success in
\* that run, and every document with an HTTPS block (staged, live or loaded)
\* belongs to a site for which some run's Issue succeeded.
C5_HttpsOnlyAfterIssue ==
  /\ \A w \in Runs : \A k \in 1..Len(Hist(w)) :
       Hist(w)[k] = Event("render", "https") =>
         \E j \in 1..(k-1) : Hist(w)[j].op = "issue"
  /\ \A i \in SiteIDs :
       \A d \in {stagingDir[i], sitesDir[i], loaded[i]} :
         (d # NoFile /\ d[1].https # << >>) =>
           \E w \in Runs : SameSite(w, i) /\ "issue" \in Ops(w)

C5_Witness ==
  \E i \in SiteIDs : sitesDir[i] # NoFile /\ sitesDir[i][1].https # << >>

\* C6: when Issue fails in a run that has its site to itself, the run ends
\* with the stored status cert-failed, the provider's error text as
\* error_message, ssl = true still stored, and a live config without an
\* HTTPS block.
C6_IssueFailure ==
  \A w \in Runs :
    (Exclusive(w) /\ Done(w) /\ "issue_fail" \in Ops(w)) =>
      /\ Stored(w) # << >>
      /\ Stored(w)[1].status = "cert-failed"
      /\ \E k \in 1..Len(Hist(w)) :
           /\ Hist(w)[k].op = "issue_fail"
           /\ Stored(w)[1].msg = <<Hist(w)[k].arg>>
      /\ Stored(w)[1].ssl
      /\ Live(w) # NoFile
      /\ Live(w)[1].https = << >>

C6_Witness ==
  \E w \in Runs : Exclusive(w) /\ Done(w) /\ "issue_fail" \in Ops(w)

\* C7: in a run for an ssl = true request that has its site to itself and
\* in which no step fails, the stored status is provisioning until the run
\* ends and active when it has ended; then ssl = true and
\* cert_issue_status = valid are stored and the live config has the HTTP
\* block (a redirect when force_ssl) and the HTTPS proxy block.
C7_SuccessfulTLS ==
  \A w \in Runs :
    (Exclusive(w) /\ RequestedSSL(w) /\ NoFail(w)) =>
      /\ Stored(w) # << >>
      /\ ~Done(w) => Stored(w)[1].status = "provisioning"
      /\ Done(w) =>
           /\ Stored(w)[1].status = "active"
           /\ Stored(w)[1].ssl
           /\ Stored(w)[1].cert = "valid"
           /\ Live(w) # NoFile
           /\ Live(w)[1].http.kind =
                (IF run[w].site.force_ssl THEN "redirect" ELSE "proxy")
           /\ Live(w)[1].acme_root = "/var/www/hubfly"
           /\ Live(w)[1].https # << >>
           /\ Live(w)[1].https[1].location.kind = "proxy"

C7_Witness ==
  \E w \in Runs :
    /\ Exclusive(w) /\ RequestedSSL(w) /\ NoFail(w) /\ Done(w)
    /\ run[w].site.force_ssl

\* C8: when, in a run that has its site to itself, Issue succeeded and the
\* TLS-enabled re-render or re-apply then fails, the run ends with the
\* stored status error, and ssl = true and cert_issue_status = valid stay
\* stored.
C8_FailureAfterIssue ==
  \A w \in Runs :
    (Exclusive(w) /\ Done(w) /\ "issue" \in Ops(w) /\ ~NoFail(w)) =>
      /\ Stored(w) # << >>
      /\ Stored(w)[1].status = "error"
      /\ Stored(w)[1].ssl
      /\ Stored(w)[1].cert = "valid"

C8_Witness ==
  \E w \in Runs :
    /\ Exclusive(w) /\ Done(w) /\ "issue" \in Ops(w)
    /\ "reload_fail" \in Ops(w)

\* the streams stored for port p
StoredOn(p) == {x \in StoredStreams : x.listen_port = p}

\* the live file of port p is what RebuildStreamConfig derives from the
\* streams stored for p now (none: no file)
LiveMatchesStore(p) ==
  IF StoredOn(p) = {}
  THEN streamsDir[p] = NoFile
  ELSE streamsDir[p] \in {<<RenderPort(p, list)>> : list \in Orders(StoredOn(p))}

\* C9: when every request so far was a create or delete on listen port p
\* and every reconcileStreams goroutine has finished without an error, the
\* live artifact of p is the one derived from the streams stored for p.
C9_NoRaceOnPort ==
  \A p \in Ports :
    (/\ \E r \in Recs : RecStarted(r)
     /\ \A r \in Recs : req[r].pc # "failed"
     /\ \A r \in Recs : RecStarted(r) =>
          (rec[r].port = p /\ rec[r].pc = "done" /\ rec[r].err = "nil"))
      => LiveMatchesStore(p)

\* C10: the live artifact of a port, rendered from a non-empty list of
\* streams, is a direct pass-through to the single stream's upstream iff the
\* list has exactly one stream and that stream has no domain; for two or
\* more streams, or a stream with a domain, it is the SNI map with the
\* ssl_preread listener that proxies to the map variable.
C10_DirectIffSingleNoDomain ==
  \A p \in Ports :
    streamsDir[p] # NoFile =>
      LET a == streamsDir[p][1]
          single == Len(built[p]) = 1 /\ built[p][1].domain = ""
      IN /\ built[p] # << >>
         /\ a.kind \in {"direct", "sni"}
         /\ a.kind = "direct" <=> single
         /\ single => a.proxy_pass = <<built[p][1].upstream>>
         /\ (Len(built[p]) >= 2
             \/ \E k \in 1..Len(built[p]) : built[p][k].domain # "")
              => (a.kind = "sni" /\ a.proxy_pass = <<"$stream_map_", p>>)

C10_Witness ==
  \E p, q \in Ports :
    /\ streamsDir[p] # NoFile /\ streamsDir[p][1].kind = "direct"
    /\ streamsDir[q] # NoFile /\ streamsDir[q][1].kind = "sni"
    /\ Len(built[q]) = 1

\* positions of the list whose stream has a domain / has none
Tagged(list) == {k \in 1..Len(list) : list[k].domain # ""}
Untagged(list) == {k \in 1..Len(list) : list[k].domain = ""}

\* C11: in the SNI artifact of a port the map has one entry
\* domain -> upstream per domain-tagged stream of the list it was rendered
\* from and no other entry; it has a default entry iff some stream of the
\* list has no domain, and then the default is the upstream of the first
\* such stream.
C11_SniMapEntries ==
  \A p \in Ports :
    (streamsDir[p] # NoFile /\ streamsDir[p][1].kind = "sni") =>
      LET a == streamsDir[p][1]
          list == built[p]
      IN /\ Len(a.map) = Cardinality(Tagged(list))
         /\ \A k \in Tagged(list) :
              Cardinality({m \in 1..Len(a.map) :
                             a.map[m] = <<list[k].domain, list[k].upstream>>})
              = Cardinality({j \in Tagged(list) :
                               /\ list[j].domain = list[k].domain
                               /\ list[j].upstream = list[k].upstream})
         /\ Len(a.default) = (IF Untagged(list) = {} THEN 0 ELSE 1)
         /\ Untagged(list) # {} =>
              \E k \in Untagged(list) :
                /\ \A j \in Untagged(list) : k <= j
                /\ a.default = <<list[k].upstream>>

C11_Witness ==
  \E p \in Ports :
    /\ streamsDir[p] # NoFile /\ streamsDir[p][1].kind = "sni"
    /\ Len(built[p]) = 2 /\ Untagged(built[p]) = {1, 2}
    /\ built[p][1].upstream # built[p][2].upstream

\* the stream a DELETE removed is the one at position k of a list
SameStream(x, y) == x.id = y.id /\ x.created_at = y.created_at

\* C12: a DELETE of a stream whose creation had been reconciled removes
\* the record and launches reconcileStreams of its port; the list that
\* reconciliation rebuilds the port's artifact from holds the remaining
\* streams of the port only, never the deleted one, and when it has
\* rebuilt without error from an empty list the port has no live file.
C12_DeleteReconciles ==
  \A r \in Recs :
    (rec[r].deleted # << >> /\ rec[r].settled) =>
      /\ rec[r].port = rec[r].deleted[1].listen_port
      /\ rec[r].pc = "reconcileStreams" =>
           \A x \in StoredStreams : ~SameStream(x, rec[r].deleted[1])
      /\ \A k \in 1..Len(rec[r].portStreams) :
           ~SameStream(rec[r].portStreams[k], rec[r].deleted[1])

\* reconcileStreams goroutine r ends in this step
Ends(r) == rec[r].pc \notin {"idle", "done"} /\ rec'[r].pc = "done"

\* C13: when a reconcileStreams goroutine ends without error, every stream
\* it listed for the port with a status other than active is stored with
\* status active (unless it was deleted or created anew since); when it
\* ends with a rebuild or reload error it has written no stream record:
\* status and error_message of every stream are as they were.
C13_ReconcileStatus ==
  [][\A r \in Recs :
       Ends(r) =>
         IF rec'[r].err = "nil"
         THEN \A k \in 1..Len(rec[r].portStreams) :
                LET x == rec[r].portStreams[k]
                    now == streams'[x.id]
                IN x.status # "active" =>
                     \/ now = << >>
                     \/ now[1].created_at # x.created_at
                     \/ now[1].status = "active" /\ now[1].msg = << >>
         ELSE /\ streams' = streams
              /\ rec[r].pc = "RebuildStreamConfig"]_vars

C13_Witness ==
  /\ \E r \in Recs :
       /\ rec[r].pc = "done" /\ rec[r].err = "nil"
       /\ Len(rec[r].portStreams) = 2
       /\ \A k \in 1..2 :
            /\ rec[r].portStreams[k].status = "provisioning"
            /\ streams[rec[r].portStreams[k].id] # << >>
            /\ streams[rec[r].portStreams[k].id][1].status = "active"
  /\ \E q \in Recs :
       /\ rec[q].pc = "done" /\ rec[q].err # "nil"
       /\ rec[q].portStreams # << >>

\* C14: all stored streams that share a listen_port have the same
\* protocol, and the live artifact of a port is an SNI map only when the
\* streams it was rendered from are tcp.
C14_OneProtocolPerPort ==
  /\ \A x, y \in StoredStreams :
       x.listen_port = y.listen_port => x.protocol = y.protocol
  /\ \A p \in Ports :
       (streamsDir[p] # NoFile /\ streamsDir[p][1].kind = "sni") =>
         \A k \in 1..Len(built[p]) : built[p][k].protocol = "tcp"

\* C15: a POST /v1/streams without listen_port that was answered got a
\* port of 30000..30100 on which no stored stream listened when its record
\* was saved; the response and the stored record carry that port; and when
\* its reconciliation has ended without error the port's live artifact is
\* a direct pass-through.
C15_AutoPort ==
  \A r \in Recs :
    (req[r].pc = "done" /\ req[r].body[1].listen_port = 0) =>
      LET resp == req[r].resp[2]
      IN /\ resp.listen_port >= PortMin /\ resp.listen_port <= PortMax
         /\ ~req[r].taken
         /\ \A x \in StoredStreams :
              (x.id = resp.id /\ x.created_at = r)
                => x.listen_port = resp.listen_port
         /\ (rec[r].pc = "done" /\ rec[r].err = "nil") =>
              /\ streamsDir[resp.listen_port] # NoFile
              /\ streamsDir[resp.listen_port][1].kind = "direct"

\* C16: a live file, of a site or of a port, is created or changed only by
\* the swap of a staged file into its place: the new content of the live
\* file is a file that lay in the staging directory before the step.
\* (Rendering writes to staging only.)
C16_LiveOnlyBySwap ==
  [][/\ \A i \in SiteIDs :
          (sitesDir'[i] # sitesDir[i] /\ sitesDir'[i] # NoFile) =>
            sitesDir'[i] = stagingDir[i]
     /\ \A p \in Ports :
          (streamsDir'[p] # streamsDir[p] /\ streamsDir'[p] # NoFile) =>
            \E i \in SiteIDs : streamsDir'[p] = stagingDir[i]]_vars

\* run w leaves the rename of Manager.Apply in this step
Renames(w) == run[w].pc = "Apply" /\ run'[w].pc # "Apply"

\* C17: the swap is one rename: in every step each live site file stays
\* as it was or becomes the whole staged file of its id; a successful
\* rename makes the live file of the site the staged file and leaves no
\* staged file; a failed rename leaves the live directory as it was, the
\* run goes to updateStatus(error) and never asks for a reload.
C17_AtomicSwap ==
  /\ [][/\ \A i \in SiteIDs : sitesDir'[i] \in {sitesDir[i], stagingDir[i]}
        /\ \A w \in Runs :
             Renames(w) =>
               LET id == run[w].site.id
               IN IF run'[w].pc = "Reload"
                  THEN /\ stagingDir[id] # NoFile
                       /\ sitesDir'[id] = stagingDir[id]
                       /\ stagingDir'[id] = NoFile
                       /\ \A j \in SiteIDs \ {id} : sitesDir'[j] = sitesDir[j]
                  ELSE /\ sitesDir' = sitesDir
                       /\ loaded' = loaded
                       /\ run'[w].pc = "updateStatus"
                       /\ run'[w].status = "error"
                       /\ run'[w].cont = "done"]_vars
  /\ [](\A w \in Runs : \A k \in 1..Len(Hist(w)) :
          Hist(w)[k].op = "rename_fail" => k = Len(Hist(w)))

C17_Witness ==
  /\ \E w \in Runs : Done(w) /\ "rename" \in Ops(w)
  /\ \E w \in Runs : Done(w) /\ "rename_fail" \in Ops(w)

UnknownTemplate(w) ==
  \E k \in 1..Len(run[w].site.templates) :
    run[w].site.templates[k] \notin TemplateFiles

\* C19: a run whose site names an unknown template does nothing but fail
\* its first render: it never stages, renames, reloads or issues, each of
\* its steps leaves the staging directory, the live directory and the
\* engine as they were, and (having its site to itself) it ends with the
\* stored status error and the "config gen failed: " message.
C19_UnknownTemplate ==
  /\ [](\A w \in Runs :
          (Started(w) /\ UnknownTemplate(w)) =>
            /\ Ops(w) \subseteq {"render_fail"}
            /\ (Exclusive(w) /\ Done(w)) =>
                 /\ Stored(w) # << >>
                 /\ Stored(w)[1].status = "error"
                 /\ Stored(w)[1].msg =
                      <<"config gen failed: ", "failed to load template">>)
  /\ [][\A w \in Runs :
          (Started(w) /\ UnknownTemplate(w) /\ run'[w] # run[w]) =>
            /\ sitesDir' = sitesDir
            /\ stagingDir' = stagingDir
            /\ loaded' = loaded]_vars

C19_Witness ==
  \E w \in Runs :
    /\ Exclusive(w) /\ Done(w) /\ UnknownTemplate(w)
    /\ Len(run[w].site.templates) = 2
    /\ Live(w) # NoFile

\* the DELETE handler d is past the point where it decides on Revoke and
\* has made that call, if any
PastRevoke(d) == del[d].pc \in {"Delete", "DeleteSite", "done", "failed"}

\* the first thing handler d did was Revoke of the site's domain
RevokedFirst(d) ==
  /\ del[d].hist # << >>
  /\ del[d].hist[1].op \in {"revoke", "revoke_fail"}
  /\ del[d].hist[1].arg = del[d].site[1].domain

\* what the handler does after Revoke, whatever Revoke returned: Revoke
\* touches neither the live file nor the record and hands over to
\* Nginx.Delete; a successful Nginx.Delete leaves no live file of the
\* site; DeleteSite leaves no record of it
DeletionProceeds ==
  \A d \in Dels :
    /\ (del[d].pc = "Revoke" /\ del'[d].pc # "Revoke") =>
         (del'[d].pc = "Delete" /\ sitesDir' = sitesDir /\ sites' = sites)
    /\ (del[d].pc = "Delete" /\ del'[d].pc = "DeleteSite") =>
         sitesDir'[del[d].id] = NoFile
    /\ (del[d].pc = "DeleteSite" /\ del'[d].pc = "done") =>
         sites'[del[d].id] = << >>

\* C20 (as stated): a DELETE of an existing site with the revoke flag set
\* calls Revoke(domain) before it removes the live config; if Revoke fails
\* the handler still removes the live file and the record.
C20_RevokeOnDelete ==
  /\ [](\A d \in Dels :
          (del[d].revoke /\ PastRevoke(d)) => RevokedFirst(d))
  /\ [][DeletionProceeds]_vars

\* C20 (amended): a DELETE with the revoke flag set of an existing site
\* whose stored record has ssl = true calls Revoke(domain) before it
\* removes the live config, and for a site without ssl no Revoke is made;
\* if Revoke fails the handler still removes the live file and the record.
C20_RevokeOnDeleteOfSSL ==
  /\ [](\A d \in Dels :
          PastRevoke(d) =>
            IF del[d].revoke /\ del[d].site[1].ssl
            THEN RevokedFirst(d)
            ELSE \A k \in 1..Len(del[d].hist) :
                   del[d].hist[k].op \notin {"revoke", "revoke_fail"})
  /\ [][DeletionProceeds]_vars

C20_Witness ==
  \E d \in Dels :
    /\ del[d].pc = "done" /\ del[d].revoke
    /\ del[d].hist[1].op = "revoke_fail"
    /\ sites[del[d].id] = << >> /\ sitesDir[del[d].id] = NoFile

\* C21: a create request for a site or a stream stores the record with status
\* provisioning in the step that launches its worker, answers 201 with that
\* record while the worker has not taken a step, and when the save fails it
\* answers 500 and no worker is ever launched for the request.
C21_CreatePersistsBeforeLaunch ==
  [][/\ \A w \in Runs :
          (run[w].pc = "idle" /\ run'[w].pc # "idle") =>
            LET site == run'[w].site
            IN /\ site.status = "provisioning"
               /\ sites'[site.id] = <<site>>
               /\ run'[w].saveErr = "nil" =>
                    /\ run'[w].pc = "GenerateConfig"
                    /\ run'[w].hist = << >>
                    /\ run'[w].resp = <<"201", site>>
               /\ run'[w].saveErr # "nil" =>
                    /\ run'[w].pc = "rejected"
                    /\ run'[w].resp[1] = "500"
     /\ \A w \in Runs :
          run[w].saveErr # "nil" =>
            (run'[w].pc = "rejected" /\ run'[w].hist = << >>)
     /\ \A r \in Recs :
          (req[r].pc = "idle" /\ req'[r].pc # "idle") =>
            LET stream == NewStream(r, req'[r].body[1], req'[r].port)
            IN /\ stream.status = "provisioning"
               /\ streams'[stream.id] = <<stream>>
               /\ req'[r].saveErr = "nil" =>
                    /\ rec[r].pc = "idle"
                    /\ rec'[r].pc = "reconcileStreams"
                    /\ rec'[r].port = stream.listen_port
                    /\ req'[r].resp = <<"201", stream>>
               /\ req'[r].saveErr # "nil" =>
                    /\ rec'[r] = IdleRec
                    /\ req'[r].resp[1] = "500"
     /\ \A r \in Recs : req[r].saveErr # "nil" => rec'[r] = IdleRec]_vars

\* a site create and a stream create were accepted and their workers have
\* finished, and another site create failed at the save
C21_Witness ==
  \E w, v \in Runs, r \in Recs :
    /\ run[w].pc = "done" /\ run[w].resp # << >> /\ run[w].resp[1] = "201"
    /\ run[v].pc = "rejected"
    /\ req[r].pc = "done" /\ rec[r].pc = "done"

\* the statuses a provisioning ends in
Terminal == {"active", "error", "cert-failed"}

\* C22: when every worker that can take a step eventually takes it, each site
\* whose create launched a worker is, at some later time, stored with one of
\* the statuses active, error or cert-failed, its worker having ended.
C22_LeavesProvisioning ==
  \A w \in Runs :
    (run[w].pc = "GenerateConfig" /\ run[w].hist = << >>)
      ~> (/\ Done(w)
          /\ Stored(w) # << >>
          /\ Stored(w)[1].status \in Terminal)

\* two workers have ended, one on a site stored as active and one on a site
\* stored as cert-failed
C22_Witness ==
  \E w, v \in Runs :
    /\ Done(w) /\ Stored(w) # << >> /\ Stored(w)[1].status = "active"
    /\ Done(v) /\ Stored(v) # << >> /\ Stored(v)[1].status = "cert-failed"

\* C23: when Issue fails in a run that has its site to itself, whatever the
\* site's force_ssl, the live config the run ends with has an HTTP root
\* location that proxies to the site's first upstream, next to the stored
\* status cert-failed.
C23_HttpServableAfterCertFailure ==
  \A w \in Runs :
    (Exclusive(w) /\ Done(w) /\ "issue_fail" \in Ops(w)) =>
      /\ Stored(w) # << >>
      /\ Stored(w)[1].status = "cert-failed"
      /\ Live(w) # NoFile
      /\ Live(w)[1].http.kind = "proxy"
      /\ Live(w)[1].http.upstream = run[w].site.upstreams[1]

\* the call of GenerateConfig under study returned a document
Rendered == rendered.out # << >> /\ rendered.out[1].err = "nil"
RenderedSite == rendered.site[1]
RenderedDoc == rendered.out[1].doc[1]

\* C24: for a site with force_ssl = true the root location of the rendered
\* HTTP listener is the unconditional redirect "return 301 https://..." and
\* holds no proxy_pass, no proxy_set_header, no template fragment and no
\* extra_config.
C24_ForceSSLRedirectOnly ==
  (Rendered /\ RenderedSite.force_ssl) =>
    /\ RenderedDoc.http.kind = "redirect"
    /\ RenderedDoc.http.return = <<"301", "https://$host$request_uri">>
    /\ RenderedDoc.http.upstream = ""
    /\ RenderedDoc.http.headers = << >>
    /\ RenderedDoc.http.snippets = << >>
    /\ RenderedDoc.http.extra = ""

\* a force_ssl site with headers, a template and extra_config was rendered
C24_Witness ==
  /\ Rendered /\ RenderedSite.force_ssl
  /\ RenderedSite.headers # << >>
  /\ RenderedSite.templates # << >>
  /\ RenderedSite.extra # ""
  /\ RenderedSite.upstreams # << >>

\* the ssl and force_ssl of the record a document was rendered from, read
\* off the document
Combo(d) == <<d[1].https # << >>, d[1].http.kind = "redirect">>

\* C25: every site config there is -- staged, live or run by the engine, at
\* every stage of every provisioning, for each combination of ssl and
\* force_ssl -- has the HTTP listener's challenge location served from the
\* fixed webroot /var/www/hubfly.
C25_ChallengePassthrough ==
  \A i \in SiteIDs :
    \A d \in {stagingDir[i], sitesDir[i], loaded[i]} :
      d # NoFile => d[1].acme_root = "/var/www/hubfly"

\* configs of all four combinations of ssl and force_ssl have been live or
\* staged at once
C25_Witness ==
  /\ \E i \in SiteIDs : sitesDir[i] # NoFile /\ loaded[i] = sitesDir[i]
  /\ {Combo(d) : d \in ({stagingDir[i] : i \in SiteIDs}
                       \cup {sitesDir[i] : i \in SiteIDs}) \ {NoFile}}
       = BOOLEAN \X BOOLEAN

\* C26: the rendered document has an HTTPS listener block iff the record
\* handed to the renderer has ssl = true, and the block's certificate and
\* key are the files fullchain.pem and privkey.pem of the directory
\* /etc/letsencrypt/live/<domain> of the site's domain, whatever its id.
C26_HttpsIffSSL ==
  Rendered =>
    /\ RenderedDoc.https # << >> <=> RenderedSite.ssl
    /\ RenderedSite.ssl =>
         /\ Len(RenderedDoc.https) = 1
         /\ RenderedDoc.https[1].server_name = RenderedSite.domain
         /\ RenderedDoc.https[1].certificate =
              <<"/etc/letsencrypt/live/", RenderedSite.domain,
                "/fullchain.pem">>
         /\ RenderedDoc.https[1].certificate_key =
              <<"/etc/letsencrypt/live/", RenderedSite.domain,
                "/privkey.pem">>

\* a site with ssl = true whose id is not its domain was rendered
C26_Witness ==
  /\ Rendered /\ RenderedSite.ssl
  /\ RenderedSite.id # RenderedSite.domain

\* the firewall of the rendered site, and the parts of the output
RenderedFirewall == RenderedSite.firewall[1]
RenderedLines == RenderedDoc.firewall
RenderedZones == RenderedDoc.zones
LinesOf(heads) == SelectSeq(RenderedLines, LAMBDA l : l[1] \in heads)
Conditionals(var) ==
  SelectSeq(RenderedLines, LAMBDA l : l[1] = "if" /\ l[2] = var)

\* C28: the allow and deny directives of the output are, one for one and
\* in the same order, the ip_rules of the site's firewall.
C28_IPRulesInOrder ==
  (Rendered /\ RenderedSite.firewall # << >>) =>
    LET rules == RenderedFirewall.ip_rules
        out == LinesOf({"allow", "deny"})
    IN /\ Len(out) = Len(rules)
       /\ \A k \in 1..Len(rules) :
            out[k] = <<rules[k].action, rules[k].value>>

\* rules with an allow before a deny were rendered
C28_Witness ==
  /\ Rendered /\ RenderedSite.firewall # << >>
  /\ Len(RenderedFirewall.ip_rules) = 3
  /\ RenderedFirewall.ip_rules[1].action = "allow"
  /\ RenderedFirewall.ip_rules[2].action = "deny"

\* C29: for a site with block_rules the output has one location returning
\* 403 per blocked path, one user-agent conditional over the alternation of
\* all listed patterns returning 403, and one request-method conditional
\* over all listed methods returning 405.
C29_BlockRules ==
  (Rendered /\ RenderedSite.firewall # << >>
     /\ RenderedFirewall.block_rules # << >>) =>
    LET block == RenderedFirewall.block_rules[1]
        locs == LinesOf({"location"})
        uas == Conditionals("$http_user_agent")
        ms == Conditionals("$request_method")
    IN /\ Len(locs) = Len(block.paths)
       /\ \A k \in 1..Len(block.paths) :
            locs[k] = <<"location", "~", block.paths[k], "return", "403">>
       /\ block.user_agents # << >> =>
            uas = << <<"if", "$http_user_agent", "~*", block.user_agents,
                       "return", "403">> >>
       /\ block.methods # << >> =>
            ms = << <<"if", "$request_method", "~*", block.methods,
                      "return", "405">> >>

\* two paths, two user agents and two methods were blocked
C29_Witness ==
  /\ Rendered /\ RenderedSite.firewall # << >>
  /\ RenderedFirewall.block_rules # << >>
  /\ Len(RenderedFirewall.block_rules[1].paths) = 2
  /\ Len(RenderedFirewall.block_rules[1].user_agents) = 2
  /\ Len(RenderedFirewall.block_rules[1].methods) = 2

\* C30: for a site with rate limiting enabled the output has one zone
\* declaration keyed by $binary_remote_addr with the configured rate and
\* unit and one limit_req directive with the configured burst and nodelay,
\* both naming the zone zone_<id>; no site with another id gets that name.
C30_RateLimitZone ==
  (Rendered /\ RenderedSite.firewall # << >>
     /\ RateLimited(RenderedFirewall)) =>
    LET rl == RenderedFirewall.rate_limit[1]
        zone == <<"zone_", RenderedSite.id>>
    IN /\ RenderedZones =
            << <<"limit_req_zone", "$binary_remote_addr", zone, "10m",
                 rl.rate, rl.unit>> >>
       /\ LinesOf({"limit_req"}) =
            << <<"limit_req", zone, rl.burst, "nodelay">> >>
       /\ \A other \in FirewallInputs :
            other.id # RenderedSite.id =>
              \A k \in 1..Len(CompileZones(other)) :
                CompileZones(other)[k][3] # RenderedZones[1][3]

\* a site limited to 5 requests a minute was rendered
C30_Witness ==
  /\ Rendered /\ RenderedSite.firewall # << >>
  /\ RateLimited(RenderedFirewall)
  /\ RenderedFirewall.rate_limit[1].unit = "r/m"

\* C31: for every entry path -> methods of path_methods the output has
\* exactly one block scoped to that path, and the block holds the
\* request-method conditional that returns 405 for the listed methods and
\* the proxy_pass to the site's upstream.
C31_PathMethodBlocks ==
  (Rendered /\ RenderedSite.firewall # << >>
     /\ RenderedFirewall.block_rules # << >>) =>
    LET entries == RenderedFirewall.block_rules[1].path_methods
        blocks == RenderedDoc.path_blocks
        body(b) == {b.body[j] : j \in 1..Len(b.body)}
    IN /\ Len(blocks) = Len(entries)
       /\ \A k \in 1..Len(entries) :
            LET at == {j \in 1..Len(blocks) :
                         blocks[j].location = <<"~", entries[k].path>>}
            IN /\ Cardinality(at) = 1
               /\ \A j \in at :
                    /\ <<"if", "$request_method", "~*", entries[k].methods,
                         "return", "405">> \in body(blocks[j])
                    /\ <<"proxy_pass", RenderedSite.upstreams[1]>>
                         \in body(blocks[j])

\* two paths with methods of their own were rendered
C31_Witness ==
  /\ Rendered /\ RenderedSite.firewall # << >>
  /\ RenderedFirewall.block_rules # << >>
  /\ Len(RenderedFirewall.block_rules[1].path_methods) = 2
  /\ Len(RenderedDoc.path_blocks) = 2

\* the record occurs exactly once in the list, and nothing else of its id
Once(list, r) ==
  /\ Cardinality({k \in 1..Len(list) : list[k].id = r.id}) = 1
  /\ \E k \in 1..Len(list) : list[k] = r

\* C32: after a save that returned nil, get of the record's id returns the
\* record and every list holds it exactly once; after a delete, get of the
\* id is not-found; every call leaves the records of all other ids as they
\* were; and before any call every get is not-found.  Sites and streams
\* alike.
C32_StoreRoundTrip ==
  /\ [](storeCall.op = "none" =>
          /\ \A i \in SiteIDs : GetSite(i) = << >>
          /\ \A i \in StreamIDs : GetStream(i) = << >>)
  /\ [][LET c == storeCall'
        IN /\ (c.op = "SaveSite" /\ c.err = "nil") =>
                /\ sites'[c.arg[1].id] = c.arg
                /\ \A list \in ListSites' : Once(list, c.arg[1])
           /\ c.op = "SaveSite" =>
                \A i \in SiteIDs \ {c.arg[1].id} : sites'[i] = sites[i]
           /\ c.op = "DeleteSite" =>
                /\ sites'[c.arg[1]] = << >>
                /\ \A list \in ListSites' :
                     \A k \in 1..Len(list) : list[k].id # c.arg[1]
                /\ \A i \in SiteIDs \ {c.arg[1]} : sites'[i] = sites[i]
           /\ c.op \in {"SaveSite", "DeleteSite"} => streams' = streams
           /\ (c.op = "SaveStream" /\ c.err = "nil") =>
                /\ streams'[c.arg[1].id] = c.arg
                /\ \A list \in ListStreams' : Once(list, c.arg[1])
           /\ c.op = "SaveStream" =>
                \A i \in StreamIDs \ {c.arg[1].id} : streams'[i] = streams[i]
           /\ c.op = "DeleteStream" =>
                /\ streams'[c.arg[1]] = << >>
                /\ \A list \in ListStreams' :
                     \A k \in 1..Len(list) : list[k].id # c.arg[1]
                /\ \A i \in StreamIDs \ {c.arg[1]} : streams'[i] = streams[i]
           /\ c.op \in {"SaveStream", "DeleteStream"} => sites' = sites
     ]_vars

\* a record was saved over another of its id while a second site and a
\* stream were stored, and a stream has been deleted
C32_Witness ==
  /\ storeCall.op = "DeleteStream" /\ storeCall.err = "nil"
  /\ Cardinality(StoredSites) = 2
  /\ Cardinality(StoredStreams) = 1

\* C40: a SaveSite or DeleteSite that returns the error of the file write
\* leaves the store as it was: every GetSite and every ListSites returns
\* after the call what it returned before it.
C40_FailedWriteChangesNothing ==
  [][(storeCall'.op \in {"SaveSite", "DeleteSite"}
        /\ storeCall'.err # "nil") =>
       /\ \A i \in SiteIDs : GetSite(i)' = GetSite(i)
       /\ ListSites' = ListSites]_vars

\* the lines of the file that pass the search and time filters, in file
\* order
Passing(file, opts) ==
  SelectSeq(file, LAMBDA l :
    /\ l.ok
    /\ opts.search = "" \/ l.method = opts.search
    /\ opts.since = 0 \/ l.time >= opts.since
    /\ opts.until = 0 \/ l.time <= opts.until)

\* the last n elements of a sequence
LastN(seq, n) == SubSeq(seq, Len(seq) - n + 1, Len(seq))

\* C33: GetAccessLogs returns the lines that pass the filters in file order,
\* oldest first, and when Limit = N > 0 is smaller than their number, the N
\* last (most recent) of them, again in file order.
C33_AccessLogsInFileOrder ==
  logCall.out # << >> =>
    LET opts == logCall.opts[1]
        pass == Passing(logCall.file[1], opts)
    IN logCall.out[1] =
         (IF opts.limit > 0 /\ opts.limit < Len(pass)
          THEN LastN(pass, opts.limit) ELSE pass)

\* every request for the site of DELETE d arrived before d, and its worker
\* (if it got one) has ended
WorkersBeforeEnded(d) ==
  \A w \in Runs :
    (Started(w) /\ run[w].site.id = del[d].id) =>
      (w \in del[d].before /\ run[w].pc \in {"done", "rejected"})

\* C34: once a DELETE of a site has answered 200 and every worker started
\* before it has ended (no create of the id came after it), the store has
\* no record of the id and the live directory no config of it.
C34_NoResurrection ==
  \A d \in Dels :
    (del[d].pc = "done" /\ WorkersBeforeEnded(d)) =>
      /\ sites[del[d].id] = << >>
      /\ sitesDir[del[d].id] = NoFile

\* the runs of the requests for site i, and the last of them
RunsOf(i) == {w \in Runs : Started(w) /\ run[w].site.id = i}
LatestOf(i) == CHOOSE w \in RunsOf(i) : \A v \in RunsOf(i) : v <= w

\* the configuration fields of a site record
ConfigOf(site) ==
  [domain |-> site.domain, upstreams |-> site.upstreams, ssl |-> site.ssl,
   force_ssl |-> site.force_ssl, templates |-> site.templates]

\* C35: when every POST for a site id was accepted and all their workers
\* have ended, the stored record has the domain, upstreams, ssl, force_ssl
\* and templates of the last POST for the id.
C35_UpdateNotLost ==
  \A i \in SiteIDs :
    (RunsOf(i) # {} /\ \A w \in RunsOf(i) : Done(w)) =>
      /\ sites[i] # << >>
      /\ ConfigOf(sites[i][1]) = ConfigOf(run[LatestOf(i)].resp[2])

\* request r was a POST /v1/streams without listen_port, answered 201
AutoCreated(r) ==
  /\ req[r].pc = "done"
  /\ req[r].body[1].listen_port = 0

\* C36: two POST /v1/streams requests without listen_port that were both
\* answered 201 got different ports, and when neither gave an id their
\* records are stored under different generated ids.
C36_DistinctAutoPorts ==
  \A r, q \in Recs :
    (r # q /\ AutoCreated(r) /\ AutoCreated(q)) =>
      /\ req[r].resp[2].listen_port # req[q].resp[2].listen_port
      /\ (req[r].body[1].id = NoID /\ req[q].body[1].id = NoID) =>
           req[r].resp[2].id # req[q].resp[2].id

\* the live artifact of a port routes connections to the stream's upstream:
\* as the proxy target of a direct listener, as the target of a map entry
\* for the stream's domain, or as the target of the default entry
Routable(s) ==
  /\ streamsDir[s.listen_port] # NoFile
  /\ LET d == streamsDir[s.listen_port][1]
     IN \/ d.kind = "direct" /\ d.proxy_pass = <<s.upstream>>
        \/ /\ d.kind = "sni"
           /\ \/ /\ s.domain # ""
                 /\ \E k \in 1..Len(d.map) : d.map[k] = <<s.domain, s.upstream>>
              \/ d.default = <<s.upstream>>

\* C37: every stream whose stored status is active is routable through the
\* live artifact of its listen port.
C37_ActiveStreamRoutable ==
  \A s \in StoredStreams : s.status = "active" => Routable(s)

\* the lists reconcileStreams can get for a port from the store as it is
ListedOn(p) == Orders({x \in StoredStreams : x.listen_port = p})

\* C38: two reconciliations over the same stored set of stream records of a
\* port write identical artifacts, whatever the order in which the store
\* lists the records.
C38_ReconcileOrderIndependent ==
  \A p \in Ports : \A l1, l2 \in ListedOn(p) :
    l1 # << >> => RenderPort(p, l1) = RenderPort(p, l2)

\* request r is answered 201 in this step
Accepted(r) == req[r].pc # "done" /\ req'[r].pc = "done"

\* the record stored under id i is still stored after the step, with the
\* same upstream and port
Kept(i) ==
  streams[i] # << >> =>
    /\ streams'[i] # << >>
    /\ streams'[i][1].upstream = streams[i][1].upstream
    /\ streams'[i][1].listen_port = streams[i][1].listen_port

\* C39: a POST /v1/streams that is answered 201 leaves every stream record
\* that was stored before it in the store, with the same upstream and port,
\* also when the requests name the same listen_port and give no id.
C39_CreateKeepsEarlierStreams ==
  [][\A r \in Recs : Accepted(r) => \A i \in StreamIDs : Kept(i)]_vars

====
